---- MODULE Spec2Model ----
(***************************************************************************)
(* Model of the registration pipeline of sammba-mri:                       *)
(*   src/sammba/registration/base.py  (extract_brain, _rigid_body_register, *)
(*       _warp, _per_slice_qwarp, _transform_to_template, BaseSession)      *)
(*   src/sammba/registration/cest.py  (CESTSession)                         *)
(*                                                                         *)
(* The file system is a function from paths to file contents, a stage is   *)
(* an operator that threads a machine record (file system, directories,    *)
(* working directory, trace of tool invocations, pending exception)        *)
(* through the statements of the Python function, and an action is one     *)
(* call of a stage with arguments drawn from small sets.                   *)
(***************************************************************************)
EXTENDS Integers, Sequences, FiniteSets, TLC

VARIABLES
    fs,       \* the files on disk: [path -> content]
    dirs,     \* the directories on disk
    cwd,      \* the working directory of the process
    session,  \* the CESTSession object: constructor fields and dynamic attributes
    env,      \* what the installation provides (RATS probe, keyword handling)
    last,     \* the record of the last stage call: arguments, outcome, trace
    ncalls    \* number of stage calls made so far

vars == <<fs, dirs, cwd, session, env, last, ncalls>>

----------------------------------------------------------------------------
(* Bounds of the model *)

MaxSlices == 2
MaxCalls == 2
MaxFailAt == 3
MaxFailDeep == 10

----------------------------------------------------------------------------
(* Paths: a directory (sequence of components), the tokens of the file     *)
(* name and the extension, as nipype's split_filename sees them.           *)

NoneDir == <<"None">>
NonePath == [dir |-> <<>>, name |-> <<"None">>, ext |-> ""]

InDir == <<"in">>
OutDir == <<"out">>
AltDir == <<"alt">>

Path(d, stem, e) == [dir |-> d, name |-> <<stem>>, ext |-> e]

Sfx(toks) == [toks |-> toks, ext |-> ""]
SfxExt(toks, e) == [toks |-> toks, ext |-> e]

\* fname_presuffix(fname, suffix=..., newpath=..., use_ext=...): pure, no I/O
FnamePresuffix(p, sfx, newpath, use_ext) ==
    [dir |-> IF newpath # NoneDir THEN newpath ELSE p.dir,
     name |-> p.name \o sfx.toks
                \o (IF use_ext /\ sfx.ext # "" THEN <<sfx.ext>> ELSE <<>>),
     ext |-> IF use_ext THEN p.ext ELSE sfx.ext]

\* os.path.dirname
Dirname(p) == p.dir

\* os.path.join(write_dir, 'per_slice')
JoinDir(d, comp) == d \o <<comp>>

\* the file an interface names itself when no out_file is given: it is
\* written in the working directory, named after the input
AutoOut(wd, p, tag) == [dir |-> wd, name |-> p.name \o <<tag>>, ext |-> p.ext]

Range(s) == {s[i] : i \in 1..Len(s)}

\* os.makedirs creates the directory and its parents
Prefixes(d) == {SubSeq(d, 1, n) : n \in 1..Len(d)}

----------------------------------------------------------------------------
(* File contents: a volume is the sequence of its slices; a matrix or a    *)
(* log is a one-element sequence.  Every slice records the volume it came  *)
(* from, its index there, the class of its intensities, the processing     *)
(* history and the volume its obliquity header was taken from.             *)

\* the intensities of a slice: all zero; some voxel positive; no voxel
\* positive, some zero and some negative (so that max() is 0)
Classes == {"zero", "pos", "nonpos"}

Sl(vol, idx, cls, hist, obl) ==
    [vol |-> vol, idx |-> idx, cls |-> cls, hist |-> hist, obl |-> obl]

Volume(vol, classes) ==
    [i \in 1..Len(classes) |-> Sl(vol, i - 1, classes[i], <<>>, vol)]

Mat(call, hist) == <<Sl("matrix", call, "", hist, "")>>

Stamp(c, toks) == [i \in 1..Len(c) |-> [c[i] EXCEPT !.hist = @ \o toks]]
SetObl(c, o) == [i \in 1..Len(c) |-> [c[i] EXCEPT !.obl = o]]
OblOf(c) == IF Len(c) = 0 THEN "lost" ELSE c[1].obl

Read(f, p) == IF p \in DOMAIN f THEN f[p] ELSE <<>>
Write(f, p, c) == [q \in DOMAIN f \cup {p} |-> IF q = p THEN c ELSE f[q]]
Unlink(f, p) == [q \in DOMAIN f \ {p} |-> f[q]]

----------------------------------------------------------------------------
(* The machine: what a running stage reads and changes.  The lists are the *)
(* local lists a stage builds while it runs (its output_files, the         *)
(* per-slice results and transforms); ret is the tuple it returns.         *)

Ev(kind, a, b, ins, out, ok) ==
    [kind |-> kind, a |-> a, b |-> b, ins |-> ins, out |-> out, ok |-> ok]

NoLists == [rigid |-> <<>>, coreg |-> <<>>, slice |-> <<>>,
            warped_slices |-> <<>>, warp_files |-> <<>>,
            warped_apply_to_slices |-> <<>>]

Machine(f, d, wd, obj, call, failAt) ==
    [fs |-> f, dirs |-> d, cwd |-> wd, obj |-> obj, call |-> call,
     failAt |-> failAt, ntool |-> 0, trace |-> <<>>, exc |-> "none",
     ret |-> <<>>, lists |-> NoLists]

Ok(m) == m.exc = "none"

\* raise
Raise(m, e) == IF Ok(m) THEN [m EXCEPT !.exc = e] ELSE m

\* return
Return(m, tuple) == IF Ok(m) THEN [m EXCEPT !.ret = tuple] ELSE m

\* What a tool writes into a declared output, from the files it reads.
Rcp(k, src, aux, toks, n) == [k |-> k, src |-> src, aux |-> aux, toks |-> toks, n |-> n]
Derive(src, toks) == Rcp("derive", src, NonePath, toks, 0)
DeriveLost(src, toks) == Rcp("lost", src, NonePath, toks, 0)
NewMat(toks) == Rcp("mat", NonePath, NonePath, toks, 0)
Keep(src, n) == Rcp("keep", src, NonePath, <<>>, n)
Applied(src, transform, toks) == Rcp("apply", src, transform, toks, 0)
Zcat == Rcp("zcat", NonePath, NonePath, <<>>, 0)

RECURSIVE Concat(_, _)
Concat(f, ins) ==
    IF Len(ins) = 0 THEN <<>> ELSE Read(f, ins[1]) \o Concat(f, Tail(ins))

Tag(c) == IF Len(c) = 0 THEN <<>> ELSE c[1].hist \o <<ToString(c[1].idx)>>

Content(m, r, ins) ==
    CASE r.k = "derive" -> Stamp(Read(m.fs, r.src), r.toks)
      [] r.k = "lost" -> SetObl(Stamp(Read(m.fs, r.src), r.toks), "lost")
      [] r.k = "mat" -> Mat(m.call, r.toks)
      [] r.k = "keep" -> SetObl(SubSeq(Read(m.fs, r.src), r.n + 1, r.n + 1), "lost")
      [] r.k = "apply" -> SetObl(Stamp(Read(m.fs, r.src),
                                       r.toks \o Tag(Read(m.fs, r.aux))), "lost")
      [] r.k = "zcat" -> SetObl(Concat(m.fs, ins), "lost")

RECURSIVE WriteOutputs(_, _, _, _)
WriteOutputs(m, f, writes, ins) ==
    IF Len(writes) = 0 THEN f
    ELSE WriteOutputs(m, Write(f, writes[1][1], Content(m, writes[1][2], ins)),
                      Tail(writes), ins)

\* the variant in which a failed invocation is swallowed and the stage goes on
InvokeSwallowing(m, kind, a, b, ins, writes) ==
    IF ~Ok(m) THEN m
    ELSE LET k == m.ntool + 1
             inputs == ({a, b} \cup Range(ins)) \ {NonePath}
             ok == /\ k # m.failAt
                   /\ inputs \subseteq DOMAIN m.fs
                   /\ \A i \in 1..Len(writes) : writes[i][1].dir \in m.dirs
             out == IF Len(writes) = 0 THEN NonePath ELSE writes[1][1]
         IN [m EXCEPT !.ntool = k,
                      !.trace = Append(@, Ev(kind, a, b, ins, out, ok)),
                      !.fs = IF ok THEN WriteOutputs(m, @, writes, ins) ELSE @]

\* One external tool invocation (an interface's run, or its cached variant).
\* It fails when the environment makes this invocation fail, when an input
\* file is absent or when the directory of an output does not exist;
\* otherwise it writes every declared output.  A failure raises, and every
\* later statement of the stage is skipped.
Invoke(m, kind, a, b, ins, writes) ==
    IF ~Ok(m) THEN m
    ELSE LET k == m.ntool + 1
             inputs == ({a, b} \cup Range(ins)) \ {NonePath}
             ok == /\ k # m.failAt
                   /\ inputs \subseteq DOMAIN m.fs
                   /\ \A i \in 1..Len(writes) : writes[i][1].dir \in m.dirs
             out == IF Len(writes) = 0 THEN NonePath ELSE writes[1][1]
         IN [m EXCEPT !.ntool = k,
                      !.trace = Append(@, Ev(kind, a, b, ins, out, ok)),
                      !.exc = IF ok THEN "none" ELSE "ToolExecutionError",
                      !.fs = IF ok THEN WriteOutputs(m, @, writes, ins) ELSE @]

\* something the stage does itself and that cannot fail
Note(m, kind, a, b) ==
    IF ~Ok(m) THEN m
    ELSE [m EXCEPT !.trace = Append(@, Ev(kind, a, b, <<>>, NonePath, TRUE))]

\* os.remove
Remove(m, p) ==
    IF ~Ok(m) THEN m
    ELSE IF p \in DOMAIN m.fs
         THEN [m EXCEPT !.fs = Unlink(@, p),
                        !.trace = Append(@, Ev("remove", p, NonePath, <<>>,
                                               NonePath, TRUE))]
         ELSE [m EXCEPT !.exc = "OSError",
                        !.trace = Append(@, Ev("remove", p, NonePath, <<>>,
                                               NonePath, FALSE))]

\* for output_file in output_files: os.remove(output_file)
RECURSIVE RemoveAll(_, _)
RemoveAll(m, files) ==
    IF Len(files) = 0 THEN m
    ELSE RemoveAll(Remove(m, files[1]), Tail(files))

\* output_files.append / output_files.extend, on the list of the stage `who`
Collect(m, who, files) ==
    IF ~Ok(m) THEN m ELSE [m EXCEPT !.lists[who] = @ \o files]

\* output_files = [...]
Assign(m, who, files) ==
    IF ~Ok(m) THEN m ELSE [m EXCEPT !.lists[who] = files]

\* the variant that removes the collected files whatever caching is
CleanupAlways(m, caching, who) ==
    IF ~Ok(m) THEN m ELSE RemoveAll(m, m.lists[who])

\* the variant that removes the collected files on every exit, as a finally
\* clause would, and lets the pending exception through
CleanupFinally(m, caching, who) ==
    IF caching THEN m
    ELSE IF Ok(m) THEN RemoveAll(m, m.lists[who])
    ELSE [RemoveAll([m EXCEPT !.exc = "none"], m.lists[who]) EXCEPT !.exc = m.exc]

\* if not caching: for out_file in output_files: os.remove(out_file)
Cleanup(m, caching, who) ==
    IF caching \/ ~Ok(m) THEN m ELSE RemoveAll(m, m.lists[who])

\* fix_obliquity(to_fix, reference, overwrite): copies the obliquity of the
\* reference into the header of the volume, in place when overwrite is set
\* and into a new file otherwise
FixedPath(p, overwrite) ==
    IF overwrite THEN p
    ELSE [dir |-> JoinDir(p.dir, "tmp"), name |-> p.name, ext |-> p.ext]

fix_obliquity(m, p, ref, overwrite) ==
    IF ~Ok(m) THEN m
    ELSE IF p \notin DOMAIN m.fs \/ ref \notin DOMAIN m.fs
         THEN [m EXCEPT !.exc = "HeaderFixError",
                        !.trace = Append(@, Ev("fix_obliquity", p, ref, <<>>,
                                               FixedPath(p, overwrite), FALSE))]
         ELSE [m EXCEPT !.fs = Write(@, FixedPath(p, overwrite),
                                     SetObl(m.fs[p], OblOf(m.fs[ref]))),
                        !.trace = Append(@, Ev("fix_obliquity", p, ref, <<>>,
                                               FixedPath(p, overwrite), TRUE))]

ToolKinds ==
    {"clip_level", "compute_mask", "calc", "allineate2", "catmatvec",
     "allineate", "warp", "resample", "slicer", "qwarp", "warp_apply",
     "merge", "copy", "unifize", "anats_to_template"}

ToolEvents(tr) == {i \in 1..Len(tr) : tr[i].kind \in ToolKinds}
Invoked(tr, kind) == {i \in 1..Len(tr) : tr[i].kind = kind}
Removals(tr, p) == {i \in 1..Len(tr) : tr[i].kind = "remove" /\ tr[i].a = p}

----------------------------------------------------------------------------
(* extract_brain, base.py:13-79 *)

\* a probe whose result is not acted upon
RatsCheckNever(m, use_rats_tool) == Note(m, "probe", NonePath, NonePath)

\* if use_rats_tool: if segmentation.Info().version() is None: raise ValueError
RatsCheck(m, use_rats_tool) ==
    IF use_rats_tool
    THEN IF env.rats THEN Note(m, "probe", NonePath, NonePath)
         ELSE Raise(m, "ValueError")
    ELSE m

\* fname_presuffix(head_file, suffix='_brain')
masked_file(head_file) == FnamePresuffix(head_file, Sfx(<<"_brain">>), NoneDir, TRUE)

\* out_compute_mask.outputs.out_file
mask_file(m, head_file) == AutoOut(m.cwd, head_file, "_mask")

Strategy(use_rats_tool) == IF use_rats_tool THEN "morpho" ELSE "histo"

\* the variant that deletes the mask whatever caching is
RemoveMaskAlways(m, caching, mask) == Remove(m, mask)

\* if not caching: os.remove(out_compute_mask.outputs.out_file)
RemoveMask(m, caching, mask) == IF caching THEN m ELSE Remove(m, mask)

extract_brain(m0, head_file, caching, use_rats_tool) ==
    LET mask == mask_file(m0, head_file)
        m1 == RatsCheck(m0, use_rats_tool)
        m2 == Invoke(m1, "clip_level", head_file, NonePath, <<>>, <<>>)
        m3 == Invoke(m2, "compute_mask", head_file, NonePath, <<>>,
                     << <<mask, Derive(head_file, <<"mask", Strategy(use_rats_tool)>>)>> >>)
        m4 == Invoke(m3, "calc", head_file, mask, <<>>,
                     << <<masked_file(head_file),
                          Derive(head_file, <<"brain", Strategy(use_rats_tool)>>)>> >>)
        m5 == RemoveMask(m4, caching, mask)
    IN Return(m5, <<masked_file(head_file)>>)

----------------------------------------------------------------------------
(* _rigid_body_register, base.py:116-182 *)

\* fname_presuffix(..., new_path=write_dir): the keyword is spelt newpath at
\* the other call sites (base.py:102, 206); where the function does not take
\* new_path the call raises TypeError before anything is derived
NewPathKeyword(m) == IF env.kwStrict THEN Raise(m, "TypeError") ELSE m

\* fname_presuffix(reference_brain_file, suffix='_shr.aff12.1D', use_ext=False, ...)
RigidTransformFile(reference_head_file, write_dir) ==
    FnamePresuffix(masked_file(reference_head_file),
                   SfxExt(<<"_shr", ".aff12">>, ".1D"), write_dir, FALSE)

\* fname_presuffix(reference_brain_file, suffix='_shr')
ShrFile(reference_head_file) ==
    FnamePresuffix(masked_file(reference_head_file), Sfx(<<"_shr">>), NoneDir, TRUE)

\* fname_presuffix(rigid_transform_file, suffix='INV', ...)
CatmatvecOutFile(reference_head_file, write_dir) ==
    FnamePresuffix(RigidTransformFile(reference_head_file, write_dir),
                   Sfx(<<"INV">>), write_dir, TRUE)

\* fname_presuffix(moving_head_file, suffix='_shr', ...)
AppliedFile(moving_head_file, write_dir) ==
    FnamePresuffix(moving_head_file, Sfx(<<"_shr">>), write_dir, TRUE)

\* if not os.path.isfile(catmatvec_out_file):
\*     catmatvec(...); output_files.append(catmatvec_out_file)
InvertIfAbsent(m, rigid_transform_file, catmatvec_out_file) ==
    IF ~Ok(m) \/ catmatvec_out_file \in DOMAIN m.fs THEN m
    ELSE Collect(Invoke(m, "catmatvec", rigid_transform_file, NonePath, <<>>,
                        << <<catmatvec_out_file,
                             Derive(rigid_transform_file, <<"INV">>)>> >>),
                 "rigid", <<catmatvec_out_file>>)

\* the variant that returns the inverted matrix
rigid_return_inverse(m, applied, rigid_transform_file, catmatvec_out_file) ==
    Return(m, <<applied, catmatvec_out_file>>)

\* return out_allineate_apply.outputs.out_file, rigid_transform_file
rigid_return(m, applied, rigid_transform_file, catmatvec_out_file) ==
    Return(m, <<applied, rigid_transform_file>>)

WriteDirOr(write_dir_arg, file) ==
    IF write_dir_arg = NoneDir THEN Dirname(file) ELSE write_dir_arg

_rigid_body_register(m0, moving_head_file, reference_head_file, use_rats_tool, write_dir_arg, caching) ==
    LET write_dir == WriteDirOr(write_dir_arg, moving_head_file)
        moving_brain_file == masked_file(moving_head_file)
        reference_brain_file == masked_file(reference_head_file)
        rigid_transform_file == RigidTransformFile(reference_head_file, write_dir)
        catmatvec_out_file == CatmatvecOutFile(reference_head_file, write_dir)
        m1 == extract_brain(m0, moving_head_file, caching, use_rats_tool)
        m2 == extract_brain(m1, reference_head_file, caching, use_rats_tool)
        m3 == NewPathKeyword(m2)
        m4 == Invoke(m3, "allineate2", reference_brain_file, moving_brain_file, <<>>,
                     << <<rigid_transform_file, NewMat(<<"shr">>)>>,
                        <<ShrFile(reference_head_file),
                          Derive(reference_brain_file, <<"shr">>)>> >>)
        m5 == Assign(m4, "rigid", <<ShrFile(reference_head_file)>>)
        m6 == InvertIfAbsent(m5, rigid_transform_file, catmatvec_out_file)
        m7 == Invoke(m6, "allineate", moving_head_file, reference_head_file,
                     <<catmatvec_out_file>>,
                     << <<AppliedFile(moving_head_file, write_dir),
                          Applied(moving_head_file, catmatvec_out_file,
                                  <<"allineate">>)>> >>)
        m8 == Cleanup(m7, caching, "rigid")
    IN rigid_return(m8, AppliedFile(moving_head_file, write_dir),
                    rigid_transform_file, catmatvec_out_file)

----------------------------------------------------------------------------
(* _warp, base.py:185-219 *)

\* fname_presuffix(to_warp_file, suffix='_warped', newpath=write_dir)
WarpedFile(to_warp_file, write_dir) ==
    FnamePresuffix(to_warp_file, Sfx(<<"_warped">>), write_dir, TRUE)

\* fname_presuffix(warped_file, suffix='_warp.mat', use_ext=False, newpath=write_dir)
MatFile(to_warp_file, write_dir) ==
    FnamePresuffix(WarpedFile(to_warp_file, write_dir), SfxExt(<<"_warp">>, ".mat"),
                   write_dir, FALSE)

\* the variant that writes the log whether or not the file exists
SaveLogAlways(m, mat_file) ==
    IF ~Ok(m) THEN m
    ELSE [m EXCEPT !.fs = Write(@, mat_file, Mat(m.call, <<"warplog">>)),
                   !.trace = Append(@, Ev("savetxt", mat_file, NonePath, <<>>,
                                          mat_file, TRUE))]

\* if not os.path.isfile(mat_file): np.savetxt(mat_file, [out_warp.runtime.stdout])
SaveLog(m, mat_file) ==
    IF ~Ok(m) \/ mat_file \in DOMAIN m.fs THEN m
    ELSE [m EXCEPT !.fs = Write(@, mat_file, Mat(m.call, <<"warplog">>)),
                   !.trace = Append(@, Ev("savetxt", mat_file, NonePath, <<>>,
                                          mat_file, TRUE))]

_warp(m0, to_warp_file, reference_file, write_dir_arg, caching, overwrite) ==
    LET write_dir == WriteDirOr(write_dir_arg, to_warp_file)
        warped_file == WarpedFile(to_warp_file, write_dir)
        mat_file == MatFile(to_warp_file, write_dir)
        m1 == Invoke(m0, "warp", to_warp_file, reference_file, <<>>,
                     << <<warped_file, DeriveLost(to_warp_file, <<"warp">>)>> >>)
        m2 == fix_obliquity(m1, warped_file, reference_file, overwrite)
        m3 == SaveLog(m2, mat_file)
    IN Return(m3, <<FixedPath(warped_file, overwrite), mat_file>>)

----------------------------------------------------------------------------
(* _transform_to_template, base.py:447-521 *)

\* os.chdir
Chdir(m, d) ==
    IF ~Ok(m) THEN m
    ELSE IF d = NoneDir THEN Raise(m, "TypeError")
    ELSE IF d \notin m.dirs THEN Raise(m, "OSError")
    ELSE [m EXCEPT !.cwd = d,
                   !.trace = Append(@, Ev("chdir", NonePath, NonePath, <<>>,
                                          NonePath, TRUE))]

\* fname_presuffix(to_register_filename, suffix='_normalized')
NormalizedFilename(to_register_filename) ==
    FnamePresuffix(to_register_filename, Sfx(<<"_normalized">>), NoneDir, TRUE)

\* out_resample.outputs.out_file, written in the working directory (write_dir)
ResampledTemplate(template_filename, write_dir, voxel_size) ==
    IF voxel_size THEN AutoOut(write_dir, template_filename, "_resample")
    ELSE template_filename

\* the variant that resamples the template whether or not a voxel size is given
ResampleTemplateAlways(m, template_filename, write_dir, voxel_size) ==
    Invoke(m, "resample", template_filename, NonePath, <<>>,
           << <<AutoOut(write_dir, template_filename, "_resample"),
                Derive(template_filename, <<"resample">>)>> >>)

\* if voxel_size is None: ... else: resample(in_file=template_filename, ...)
ResampleTemplate(m, template_filename, write_dir, voxel_size) ==
    IF voxel_size
    THEN Invoke(m, "resample", template_filename, NonePath, <<>>,
                << <<ResampledTemplate(template_filename, write_dir, voxel_size),
                     Derive(template_filename, <<"resample">>)>> >>)
    ELSE m

\* warp = "'" + " ".join(transforms) + "'": any chain, the empty one included,
\* is joined and handed to the tool
JoinChain(m, transforms) == Note(m, "join", NonePath, NonePath)

_transform_to_template(m0, to_register_filename, template_filename, write_dir, transforms, voxel_size, caching) ==
    LET m1 == Chdir(m0, write_dir)
        m2 == ResampleTemplate(m1, template_filename, write_dir, voxel_size)
        m3 == JoinChain(m2, transforms)
        m4 == Invoke(m3, "warp_apply", to_register_filename,
                     ResampledTemplate(template_filename, write_dir, voxel_size),
                     transforms,
                     << <<NormalizedFilename(to_register_filename),
                          Applied(to_register_filename, NonePath, <<"normalized">>)>> >>)
        m5 == Chdir(m4, m0.cwd)
    IN Return(m5, <<NormalizedFilename(to_register_filename)>>)

----------------------------------------------------------------------------
(* _per_slice_qwarp, base.py:222-444 *)

\* if write_dir is None: write_dir = os.path.dirname(to_qwarp_file),
\* the trailing comma makes write_dir a tuple, which os.path.join (and Memory)
\* reject with TypeError
SliceWriteDir(m, write_dir_arg) ==
    IF write_dir_arg = NoneDir THEN Raise(m, "TypeError") ELSE m

\* if not os.path.isdir(per_slice_dir): os.makedirs(per_slice_dir)
MakePerSliceDir(m, per_slice_dir) ==
    IF ~Ok(m) \/ per_slice_dir \in m.dirs THEN m
    ELSE [m EXCEPT !.dirs = @ \cup Prefixes(per_slice_dir),
                   !.trace = Append(@, Ev("makedirs", NonePath, NonePath, <<>>,
                                          NonePath, TRUE))]

\* header.get_data_shape()[2]
NSlices(m, file) == Len(Read(m.fs, file))

\* fname_presuffix(file, newpath=per_slice_dir, suffix='_sl%d' % slice_n)
SlicedFile(file, per_slice_dir, slice_n) ==
    FnamePresuffix(file, Sfx(<<"_sl" \o ToString(slice_n)>>), per_slice_dir, TRUE)

SlicedFiles(file, per_slice_dir, n) ==
    [i \in 1..n |-> SlicedFile(file, per_slice_dir, i - 1)]

\* fname_presuffix(f, suffix='_resampled')
Resampled(f) == FnamePresuffix(f, Sfx(<<"_resampled">>), NoneDir, TRUE)
ResampledAll(files) == [i \in 1..Len(files) |-> Resampled(files[i])]

\* fname_presuffix(f, suffix='_qwarped')
Qwarped(f) == FnamePresuffix(f, Sfx(<<"_qwarped">>), NoneDir, TRUE)

\* out_qwarp.outputs.source_warp
SourceWarp(warped_source) == FnamePresuffix(warped_source, Sfx(<<"_WARP">>), NoneDir, TRUE)

\* the files generated by the allineate option of the warp
AllinFiles(warped_source) ==
    <<FnamePresuffix(warped_source, SfxExt(<<"_Allin">>, ".nii"), NoneDir, FALSE),
      FnamePresuffix(warped_source, SfxExt(<<"_Allin", ".aff12">>, ".1D"), NoneDir, FALSE)>>

\* fname_presuffix(file, suffix='_perslice', newpath=write_dir)
MergedFile(file, write_dir) ==
    FnamePresuffix(file, Sfx(<<"_perslice">>), write_dir, TRUE)

\* for slice_n in range(n): slicer(...); fix_obliquity(...); append
RECURSIVE SliceLoop(_, _, _, _, _)
SliceLoop(m, file, files, i, overwrite) ==
    IF i > Len(files) THEN m
    ELSE SliceLoop(
             fix_obliquity(
                 Invoke(m, "slicer", file, NonePath, <<>>,
                        << <<files[i], Keep(file, i - 1)>> >>),
                 files[i], file, overwrite),
             file, files, i + 1, overwrite)

\* for f in files: resample(in_file=f, ..., out_file=fname_presuffix(f, '_resampled'))
RECURSIVE ResampleLoop(_, _, _)
ResampleLoop(m, files, i) ==
    IF i > Len(files) THEN m
    ELSE ResampleLoop(
             Invoke(m, "resample", files[i], NonePath, <<>>,
                    << <<Resampled(files[i]), Derive(files[i], <<"resample">>)>> >>),
             files, i + 1)

\* data.max() == 0
MaxIsZero(c) == \A i \in 1..Len(c) : c[i].cls \in {"zero", "nonpos"}

\* the variant that looks at the source slice only
DegenerateSourceOnly(to_qwarp_data, ref_data) == MaxIsZero(to_qwarp_data)

\* if to_qwarp_data.max() == 0 or ref_data.max() == 0
Degenerate(to_qwarp_data, ref_data) ==
    MaxIsZero(to_qwarp_data) \/ MaxIsZero(ref_data)

\* one turn of the loop of base.py:312-347
QwarpSlice(m, src, ref) ==
    IF ~Ok(m) THEN m
    ELSE IF src \notin DOMAIN m.fs \/ ref \notin DOMAIN m.fs THEN Raise(m, "IOError")
    ELSE IF Degenerate(m.fs[src], m.fs[ref])
    THEN [m EXCEPT !.lists.warped_slices = Append(@, src),
                   !.lists.warp_files = Append(@, NonePath)]
    ELSE Collect(
             Collect(
                 Collect(
                     Invoke(m, "qwarp", src, ref, <<>>,
                            << <<Qwarped(src), Applied(src, ref, <<"qwarp">>)>>,
                               <<SourceWarp(Qwarped(src)), NewMat(src.name)>>,
                               <<AllinFiles(Qwarped(src))[1], Derive(src, <<"Allin">>)>>,
                               <<AllinFiles(Qwarped(src))[2], NewMat(<<"Allin">>)>> >>),
                     "warped_slices", <<Qwarped(src)>>),
                 "warp_files", <<SourceWarp(Qwarped(src))>>),
             "slice", AllinFiles(Qwarped(src)))

Min(a, b) == IF a < b THEN a ELSE b

\* for (...) in zip(resampled_sliced_to_qwarp_files, resampled_sliced_reference_files)
RECURSIVE QwarpLoop(_, _, _, _)
QwarpLoop(m, srcs, refs, i) ==
    IF i > Min(Len(srcs), Len(refs)) THEN m
    ELSE QwarpLoop(QwarpSlice(m, srcs[i], refs[i]), srcs, refs, i + 1)

\* for warped_slice in warped_slices: resample back to the initial resolution
ResampleBack(m) ==
    IF ~Ok(m) THEN m ELSE ResampleLoop(m, m.lists.warped_slices, 1)

\* for (...) in zip(refs, files): fix_obliquity(file, ref)
RECURSIVE FixLoop(_, _, _, _, _)
FixLoop(m, refs, files, i, overwrite) ==
    IF i > Min(Len(refs), Len(files)) THEN m
    ELSE FixLoop(fix_obliquity(m, files[i], refs[i], overwrite),
                 refs, files, i + 1, overwrite)

FixResampledBack(m, sliced_reference_files, overwrite) ==
    IF ~Ok(m) THEN m
    ELSE FixLoop(m, sliced_reference_files, ResampledAll(m.lists.warped_slices),
                 1, overwrite)

\* merge(in_files=resampled_warped_slices, out_file=...)
MergeFunc(m, merged) ==
    IF ~Ok(m) THEN m
    ELSE Invoke(m, "merge", NonePath, NonePath, ResampledAll(m.lists.warped_slices),
                << <<merged, Zcat>> >>)

\* output_files.extend(sliced_reference_files + ... + resampled_warped_slices)
CollectSlices(m, sliced_reference_files, sliced_to_qwarp_files) ==
    IF ~Ok(m) THEN m
    ELSE Collect(m, "slice",
                 sliced_reference_files \o sliced_to_qwarp_files
                 \o ResampledAll(sliced_reference_files)
                 \o ResampledAll(sliced_to_qwarp_files)
                 \o m.lists.warped_slices
                 \o ResampledAll(m.lists.warped_slices))

\* one turn of the loop of base.py:401-413
ApplySlice(m, sliced_apply_to_file, warp_file) ==
    IF ~Ok(m) THEN m
    ELSE IF warp_file = NonePath
    THEN Collect(m, "warped_apply_to_slices", <<sliced_apply_to_file>>)
    ELSE Collect(
             Invoke(m, "warp_apply", sliced_apply_to_file, sliced_apply_to_file,
                    <<warp_file>>,
                    << <<Qwarped(sliced_apply_to_file),
                         Applied(sliced_apply_to_file, warp_file, <<"nwarp">>)>> >>),
             "warped_apply_to_slices", <<Qwarped(sliced_apply_to_file)>>)

\* for (...) in zip(sliced_apply_to_files, warp_files)
RECURSIVE ApplyLoop(_, _, _)
ApplyLoop(m, files, i) ==
    IF ~Ok(m) \/ i > Min(Len(files), Len(m.lists.warp_files)) THEN m
    ELSE ApplyLoop(ApplySlice(m, files[i], m.lists.warp_files[i]), files, i + 1)

FixApplied(m, files, overwrite) ==
    IF ~Ok(m) THEN m
    ELSE FixLoop(m, files, m.lists.warped_apply_to_slices, 1, overwrite)

MergeApplyTo(m, merged) ==
    IF ~Ok(m) THEN m
    ELSE Invoke(m, "merge", NonePath, NonePath, m.lists.warped_apply_to_slices,
                << <<merged, Zcat>> >>)

CollectApplied(m, files) ==
    IF ~Ok(m) THEN m
    ELSE Collect(m, "slice", files \o m.lists.warped_apply_to_slices)

\* if apply_to_file is not None: ...   (base.py:385-437)
ApplyTo(m, apply_to_file, n_slices, per_slice_dir, write_dir, overwrite) ==
    IF apply_to_file = NonePath THEN m
    ELSE LET sliced_apply_to_files == SlicedFiles(apply_to_file, per_slice_dir, n_slices)
             merged == MergedFile(apply_to_file, write_dir)
             a1 == SliceLoop(m, apply_to_file, sliced_apply_to_files, 1, overwrite)
             a2 == ApplyLoop(a1, sliced_apply_to_files, 1)
             a3 == FixApplied(a2, sliced_apply_to_files, overwrite)
             a4 == MergeApplyTo(a3, merged)
             a5 == fix_obliquity(a4, merged, apply_to_file, overwrite)
         IN CollectApplied(a5, sliced_apply_to_files)

_per_slice_qwarp(m0, to_qwarp_file, reference_file, apply_to_file, write_dir, caching, overwrite) ==
    LET per_slice_dir == JoinDir(write_dir, "per_slice")
        reference_n_slices == NSlices(m0, reference_file)
        n_slices == NSlices(m0, to_qwarp_file)
        sliced_reference_files ==
            SlicedFiles(reference_file, per_slice_dir, reference_n_slices)
        sliced_to_qwarp_files == SlicedFiles(to_qwarp_file, per_slice_dir, n_slices)
        merged == MergedFile(to_qwarp_file, write_dir)
        m1 == SliceWriteDir(m0, write_dir)
        m2 == MakePerSliceDir(m1, per_slice_dir)
        m3 == SliceLoop(m2, reference_file, sliced_reference_files, 1, overwrite)
        m4 == SliceLoop(m3, to_qwarp_file, sliced_to_qwarp_files, 1, overwrite)
        m5 == ResampleLoop(m4, sliced_reference_files, 1)
        m6 == ResampleLoop(m5, sliced_to_qwarp_files, 1)
        m7 == QwarpLoop(m6, ResampledAll(sliced_to_qwarp_files),
                        ResampledAll(sliced_reference_files), 1)
        m8 == ResampleBack(m7)
        m9 == FixResampledBack(m8, sliced_reference_files, overwrite)
        m10 == MergeFunc(m9, merged)
        m11 == fix_obliquity(m10, merged, reference_file, overwrite)
        m12 == CollectSlices(m11, sliced_reference_files, sliced_to_qwarp_files)
        m13 == ApplyTo(m12, apply_to_file, n_slices, per_slice_dir, write_dir,
                       overwrite)
        m14 == Cleanup(m13, caching, "slice")
    IN Return(m14, <<merged,
                     IF apply_to_file = NonePath THEN NonePath
                     ELSE MergedFile(apply_to_file, write_dir)>>)

----------------------------------------------------------------------------
(* BaseSession and CESTSession, base.py:569-583 and cest.py:34-280 *)

HasAttr(m, k) == k \in DOMAIN m.obj.attrs

\* setattr(self, k, v)
SetAttr(m, k, v) ==
    IF ~Ok(m) THEN m ELSE [m EXCEPT !.obj.attrs = Write(@, k, v)]

\* CESTSession._check_inputs
_check_inputs(m) ==
    IF ~Ok(m) THEN m
    ELSE IF m.obj.cest \notin DOMAIN m.fs THEN Raise(m, "IOError")
    ELSE IF m.obj.anat \notin DOMAIN m.fs THEN Raise(m, "IOError")
    ELSE m

\* BaseSession._set_output_dir
_set_output_dir(m) ==
    IF ~Ok(m) THEN m
    ELSE LET d == IF m.obj.output_dir = NoneDir THEN m.cwd ELSE m.obj.output_dir
         IN [m EXCEPT !.obj.output_dir = d,
                      !.dirs = IF d \in @ THEN @ ELSE @ \cup Prefixes(d),
                      !.trace = IF d \in m.dirs THEN @
                                ELSE Append(@, Ev("makedirs", NonePath, NonePath,
                                                  <<>>, NonePath, TRUE))]

\* the variant that prepares the output directory before it validates
coregister_validate_late(m) == _check_inputs(_set_output_dir(m))

\* self._check_inputs(); self._set_output_dir()   (cest.py:125-126)
coregister_validate(m) == _set_output_dir(_check_inputs(m))

\* self.output_dir once _set_output_dir has run
OutputDirOf(m) == IF m.obj.output_dir = NoneDir THEN m.cwd ELSE m.obj.output_dir

\* copy(in_file=self.func, out_file=fname_presuffix(self.cest, newpath=...)):
\* the session has no attribute func unless one was set on it
CopyCest(m, cest_filename) ==
    IF ~Ok(m) THEN m
    ELSE IF ~HasAttr(m, "func") THEN Raise(m, "AttributeError")
    ELSE Invoke(m, "copy", m.obj.attrs["func"], NonePath, <<>>,
                << <<cest_filename, Derive(m.obj.attrs["func"], <<>>)>> >>)

\* out_bias_correct.outputs.out_file
Unifized(m, f) == AutoOut(m.cwd, f, "_unifized")

\* _rigid_body_register(anat, cest, self.output_dir, self.brain_volume,
\*                      use_rats_tool=use_rats_tool, ...): the fourth positional
\* argument already binds use_rats_tool, so the keyword is a second value
\* for it and the call raises TypeError before the body runs
BindRigidCall(m) == Raise(m, "TypeError")

\* output_files.extend([rigid_transform_file, allineated_anat_filename])
ExtendWithRigid(m) ==
    IF ~Ok(m) THEN m ELSE Collect(m, "coreg", <<m.ret[2], m.ret[1]>>)

\* if prior_rigid_body_registration: ... else: allineated_anat_filename = unbiased
RigidPass(m, prior, unbiased_anat_filename, unbiased_cest_filename, use_rats_tool, caching) ==
    IF prior
    THEN ExtendWithRigid(
             _rigid_body_register(BindRigidCall(m), unbiased_anat_filename,
                                  unbiased_cest_filename, use_rats_tool, NoneDir,
                                  caching))
    ELSE Return(m, <<unbiased_anat_filename>>)

\* _warp(allineated_anat_filename, unbiased_cest_filename, self.output_dir, ...)
WarpPass(m, unbiased_cest_filename, output_dir, caching, overwrite) ==
    IF ~Ok(m) THEN m
    ELSE _warp(m, m.ret[1], unbiased_cest_filename, output_dir, caching, overwrite)

\* a, b, c = <the tuple the stage returned>
Unpack(m, n) ==
    IF ~Ok(m) THEN m
    ELSE IF Len(m.ret) = n THEN m ELSE Raise(m, "ValueError")

\* fname_presuffix(registered_anat_oblique_filename,
\*                 suffix='_anat_to_cest.aff12.1D', use_ext=False)
TransformFilename(registered_anat_oblique_filename) ==
    FnamePresuffix(registered_anat_oblique_filename,
                   SfxExt(<<"_anat_to_cest", ".aff12">>, ".1D"), NoneDir, FALSE)

\* output_files.extend(warp_output_files); catmatvec(in_file=[(mat_filename, 'ONELINE')], ...)
Compose(m) ==
    IF ~Ok(m) THEN m
    ELSE Invoke(m, "catmatvec", m.ret[2], NonePath, <<>>,
                << <<TransformFilename(m.ret[1]), Derive(m.ret[2], <<"ONELINE">>)>> >>)

\* setattr(self, "coreg_anat_", ...); setattr(self, "coreg_transform_", ...)
StoreCoreg(m) ==
    IF ~Ok(m) THEN m
    ELSE SetAttr(SetAttr(m, "coreg_anat_", m.ret[1]),
                 "coreg_transform_", TransformFilename(m.ret[1]))

coregister(m0, use_rats_tool, prior_rigid_body_registration, caching) ==
    LET overwrite == ~caching
        output_dir == OutputDirOf(m0)
        cest_filename == FnamePresuffix(m0.obj.cest, Sfx(<<>>), output_dir, TRUE)
        anat_filename == FnamePresuffix(m0.obj.anat, Sfx(<<>>), output_dir, TRUE)
        unbiased_cest_filename == Unifized(m0, cest_filename)
        unbiased_anat_filename == Unifized(m0, anat_filename)
        m1 == coregister_validate(m0)
        m2 == CopyCest(m1, cest_filename)
        m3 == Invoke(m2, "copy", m0.obj.anat, NonePath, <<>>,
                     << <<anat_filename, Derive(m0.obj.anat, <<>>)>> >>)
        m4 == Invoke(m3, "unifize", cest_filename, NonePath, <<>>,
                     << <<unbiased_cest_filename, Derive(cest_filename, <<"unifize">>)>> >>)
        m5 == Invoke(m4, "unifize", anat_filename, NonePath, <<>>,
                     << <<unbiased_anat_filename, Derive(anat_filename, <<"unifize">>)>> >>)
        m6 == Assign(m5, "coreg", <<unbiased_cest_filename, unbiased_anat_filename>>)
        m7 == RigidPass(m6, prior_rigid_body_registration, unbiased_anat_filename,
                        unbiased_cest_filename, use_rats_tool, caching)
        m8 == WarpPass(m7, unbiased_cest_filename, output_dir, caching, overwrite)
        m9 == Unpack(m8, 3)
        m10 == Compose(m9)
        m11 == Cleanup(m10, caching, "coreg")
    IN StoreCoreg(m11)

\* if not hasattr(self, 'coreg_transform_'): raise ValueError
StateCheck(m) ==
    IF ~Ok(m) THEN m
    ELSE IF HasAttr(m, "coreg_transform_") THEN m ELSE Raise(m, "ValueError")

\* the variant that validates nothing but the state
register_validate_state_only(m) == StateCheck(m)

\* self._check_inputs(); if not hasattr(...): raise ...   (cest.py:254-257)
register_validate(m) == StateCheck(_check_inputs(m))

\* what anats_to_template reports for the one anatomical image it is given
Registered(m) ==
    FnamePresuffix(m.obj.anat, Sfx(<<"_registered">>), m.obj.output_dir, TRUE)
PreTransformOf(m) ==
    FnamePresuffix(m.obj.anat, SfxExt(<<"_pre", ".aff12">>, ".1D"), m.obj.output_dir, FALSE)
TransformOf(m) ==
    FnamePresuffix(m.obj.anat, Sfx(<<"_WARP">>), m.obj.output_dir, TRUE)

\* the variant that hands the chain over in template-to-subject order
NormalizeCestReversed(m, head_template_filename, cest_voxel_size, caching) ==
    IF ~Ok(m) THEN m
    ELSE _transform_to_template(
             m, m.obj.cest, head_template_filename, m.obj.output_dir,
             <<TransformOf(m), PreTransformOf(m), m.obj.attrs["coreg_transform_"]>>,
             cest_voxel_size, caching)

\* _transform_to_template(self.cest, head_template_filename, self.output_dir,
\*     [self.coreg_transform_, pre_transforms[0], transforms[0]], ...)
NormalizeCest(m, head_template_filename, cest_voxel_size, caching) ==
    IF ~Ok(m) THEN m
    ELSE _transform_to_template(
             m, m.obj.cest, head_template_filename, m.obj.output_dir,
             <<m.obj.attrs["coreg_transform_"], PreTransformOf(m), TransformOf(m)>>,
             cest_voxel_size, caching)

\* setattr(self, "registered_cest_", normalized_cest_filename)
StoreRegisteredCest(m) ==
    IF ~Ok(m) THEN m ELSE SetAttr(m, "registered_cest_", m.ret[1])

register_to_template(m0, head_template_filename, cest_voxel_size, caching) ==
    LET m1 == register_validate(m0)
        m2 == SetAttr(m1, "template_", head_template_filename)
        m3 == Invoke(m2, "anats_to_template", m0.obj.anat, head_template_filename, <<>>,
                     << <<Registered(m0), Derive(m0.obj.anat, <<"registered">>)>>,
                        <<PreTransformOf(m0), NewMat(<<"pre">>)>>,
                        <<TransformOf(m0), NewMat(<<"WARP">>)>> >>)
        m4 == SetAttr(m3, "registered_anat_", Registered(m0))
        m5 == NormalizeCest(m4, head_template_filename, cest_voxel_size, caching)
    IN StoreRegisteredCest(m5)

----------------------------------------------------------------------------
(* The input files and the initial states *)

Anat == Path(InDir, "anat", ".nii")
Cest == Path(InDir, "cest", ".nii")
Aux == Path(InDir, "aux", ".nii")
Template == Path(InDir, "template", ".nii")
CoregTransform == Path(OutDir, "coreg", ".1D")
PreTransform == Path(OutDir, "pre", ".1D")
WorkDir == <<"work">>

EmptyFn == [q \in {} |-> NonePath]

FilesOf(ps, data) ==
    [p \in ps |-> IF p.ext = ".1D" THEN Mat(0, p.name) ELSE Volume(p.name[1], data)]

NoCall == [op |-> "none"]

\* CESTSession.__init__ on a disk where the input images may or may not exist
Init ==
    /\ \E present \in SUBSET {Anat, Cest} :
          fs = FilesOf(present \cup {Template, CoregTransform}, <<"pos", "pos">>)
    /\ \E made \in SUBSET {AltDir} :
          dirs = {InDir, OutDir, WorkDir} \cup made
    /\ cwd = WorkDir
    /\ \E od \in {NoneDir, OutDir, AltDir} :
          session = [cest |-> Cest, anat |-> Anat, output_dir |-> od,
                     attrs |-> EmptyFn]
    /\ env = [rats |-> TRUE, kwStrict |-> FALSE]
    /\ last = NoCall
    /\ ncalls = 0

\* the stage functions called on existing volumes
InitStages ==
    /\ fs = FilesOf({Anat, Cest, Template, CoregTransform, PreTransform},
                    <<"pos", "pos">>)
    /\ dirs = {InDir, OutDir, AltDir, WorkDir}
    /\ cwd = WorkDir
    /\ session = [cest |-> Cest, anat |-> Anat, output_dir |-> OutDir,
                  attrs |-> EmptyFn]
    /\ env \in [rats : BOOLEAN, kwStrict : BOOLEAN]
    /\ last = NoCall
    /\ ncalls = 0

Pre == [fs |-> fs, dirs |-> dirs, cwd |-> cwd, obj |-> session]

FailPoints == 0..MaxFailAt

Commit(m, op, args) ==
    /\ fs' = m.fs
    /\ dirs' = m.dirs
    /\ cwd' = m.cwd
    /\ session' = m.obj
    /\ last' = [op |-> op, args |-> args, pre |-> Pre, m |-> m]
    /\ ncalls' = ncalls + 1
    /\ UNCHANGED env

Start(failAt) == Machine(fs, dirs, cwd, session, ncalls + 1, failAt)

----------------------------------------------------------------------------
(* Actions of the session *)

\* BaseSession._set_params(**{k: v}), base.py:569-571
SetParams(k, v) ==
    /\ k \notin DOMAIN session.attrs
    /\ session' = [session EXCEPT !.attrs = Write(@, k, v)]
    /\ UNCHANGED <<fs, dirs, cwd, env, last, ncalls>>

Coregister(use_rats_tool, prior, caching, failAt) ==
    /\ ncalls < MaxCalls
    /\ \E m \in {coregister(Start(failAt), use_rats_tool, prior, caching)} :
          Commit(m, "coregister",
                 [use_rats_tool |-> use_rats_tool, prior |-> prior,
                  caching |-> caching, failAt |-> failAt])

RegisterToTemplate(voxel, caching, failAt) ==
    /\ ncalls < MaxCalls
    /\ \E m \in {register_to_template(Start(failAt), Template, voxel, caching)} :
          Commit(m, "register_to_template",
                 [template |-> Template, voxel |-> voxel, caching |-> caching,
                  failAt |-> failAt])

Next ==
    \/ \E k \in {"func"} : SetParams(k, Cest)
    \/ \E k \in {"coreg_transform_"} : SetParams(k, CoregTransform)
    \/ \E u \in BOOLEAN, p \in BOOLEAN, c \in BOOLEAN, f \in FailPoints :
          Coregister(u, p, c, f)
    \/ \E v \in BOOLEAN, c \in BOOLEAN, f \in FailPoints :
          RegisterToTemplate(v, c, f)

Spec == Init /\ [][Next]_vars

----------------------------------------------------------------------------
(* Actions of the stage functions *)

ExtractBrain(head_file, caching, use_rats_tool, failAt) ==
    /\ ncalls < MaxCalls
    /\ \E m \in {extract_brain(Start(failAt), head_file, caching, use_rats_tool)} :
          Commit(m, "extract_brain",
                 [head_file |-> head_file, caching |-> caching,
                  use_rats_tool |-> use_rats_tool, failAt |-> failAt])

RigidBodyRegister(use_rats_tool, write_dir, caching, failAt) ==
    /\ ncalls < MaxCalls
    /\ \E m \in {_rigid_body_register(Start(failAt), Anat, Cest, use_rats_tool,
                                      write_dir, caching)} :
          Commit(m, "_rigid_body_register",
                 [moving |-> Anat, reference |-> Cest,
                  use_rats_tool |-> use_rats_tool, write_dir |-> write_dir,
                  caching |-> caching, failAt |-> failAt])

Warp(write_dir, caching, overwrite, failAt) ==
    /\ ncalls < MaxCalls
    /\ \E m \in {_warp(Start(failAt), Anat, Cest, write_dir, caching, overwrite)} :
          Commit(m, "_warp",
                 [to_warp |-> Anat, reference |-> Cest, write_dir |-> write_dir,
                  caching |-> caching, overwrite |-> overwrite, failAt |-> failAt])

Chains == {<<>>, <<CoregTransform>>, <<CoregTransform, PreTransform>>}

TransformToTemplate(write_dir, transforms, voxel, caching, failAt) ==
    /\ ncalls < MaxCalls
    /\ \E m \in {_transform_to_template(Start(failAt), Cest, Template, write_dir,
                                        transforms, voxel, caching)} :
          Commit(m, "_transform_to_template",
                 [to_register |-> Cest, template |-> Template,
                  write_dir |-> write_dir, transforms |-> transforms,
                  voxel |-> voxel, caching |-> caching, failAt |-> failAt])

NextStages ==
    \/ \E h \in {Anat}, c \in BOOLEAN, u \in BOOLEAN, f \in FailPoints :
          ExtractBrain(h, c, u, f)
    \/ \E u \in BOOLEAN, w \in {NoneDir, OutDir}, c \in BOOLEAN, f \in FailPoints :
          RigidBodyRegister(u, w, c, f)
    \/ \E w \in {NoneDir, OutDir}, c \in BOOLEAN, o \in BOOLEAN, f \in FailPoints :
          Warp(w, c, o, f)
    \/ \E w \in {OutDir, AltDir}, t \in Chains, v \in BOOLEAN, c \in BOOLEAN,
          f \in FailPoints :
          TransformToTemplate(w, t, v, c, f)

SpecStages == InitStages /\ [][NextStages]_vars

----------------------------------------------------------------------------
(* The per-slice warp on volumes of every shape *)

RECURSIVE SeqsUpTo(_, _)
SeqsUpTo(S, n) ==
    IF n = 0 THEN {<<>>}
    ELSE LET shorter == SeqsUpTo(S, n - 1)
         IN shorter \cup {Append(s, x) : s \in {t \in shorter : Len(t) = n - 1}, x \in S}

Shapes == SeqsUpTo(Classes, MaxSlices) \ {<<>>}

InitSlice ==
    /\ \E src \in Shapes, ref \in Shapes :
          fs = [p \in {Anat, Cest, Aux} |->
                  IF p = Anat THEN Volume("anat", src)
                  ELSE IF p = Cest THEN Volume("cest", ref)
                  ELSE Volume("aux", [i \in 1..MaxSlices |-> "pos"])]
    /\ dirs = {InDir, OutDir, WorkDir}
    /\ cwd = WorkDir
    /\ session = [cest |-> Cest, anat |-> Anat, output_dir |-> OutDir,
                  attrs |-> EmptyFn]
    /\ env = [rats |-> TRUE, kwStrict |-> FALSE]
    /\ last = NoCall
    /\ ncalls = 0

\* one call on a disk that holds the input volumes only
PerSliceQwarp(apply_to_file, write_dir, caching, failAt) ==
    /\ last = NoCall
    /\ \E m \in {_per_slice_qwarp(Start(failAt), Anat, Cest, apply_to_file,
                                  write_dir, caching, TRUE)} :
          Commit(m, "_per_slice_qwarp",
                 [to_qwarp |-> Anat, reference |-> Cest, apply_to |-> apply_to_file,
                  write_dir |-> write_dir, caching |-> caching, failAt |-> failAt])

NextSlice ==
    \E a \in {NonePath, Aux}, w \in {NoneDir, OutDir}, c \in BOOLEAN, f \in FailPoints :
        PerSliceQwarp(a, w, c, f)

SpecSlice == InitSlice /\ [][NextSlice]_vars

----------------------------------------------------------------------------
(* Every stage and both session methods, one call on a disk that holds the *)
(* inputs only, with the failing tool invocation drawn from a deeper range  *)

SourceShapes == {<<"pos", "pos">>, <<"zero", "pos">>}

InitAll ==
    /\ \E src \in SourceShapes :
          fs = [p \in {Anat, Cest, Aux, Template, CoregTransform, PreTransform} |->
                  IF p = Anat THEN Volume("anat", src)
                  ELSE IF p.ext = ".1D" THEN Mat(0, p.name)
                  ELSE Volume(p.name[1], <<"pos", "pos">>)]
    /\ dirs = {InDir, OutDir, AltDir, WorkDir}
    /\ cwd = WorkDir
    /\ session = [cest |-> Cest, anat |-> Anat, output_dir |-> OutDir,
                  attrs |-> EmptyFn]
    /\ env = [rats |-> TRUE, kwStrict |-> FALSE]
    /\ last = NoCall
    /\ ncalls = 0

DeepFailPoints == 0..MaxFailDeep

\* the first call made on the fresh disk
FirstExtractBrain(caching, use_rats_tool, failAt) ==
    last = NoCall /\ ExtractBrain(Anat, caching, use_rats_tool, failAt)
FirstRigidBodyRegister(use_rats_tool, write_dir, caching, failAt) ==
    last = NoCall /\ RigidBodyRegister(use_rats_tool, write_dir, caching, failAt)
FirstWarp(write_dir, caching, overwrite, failAt) ==
    last = NoCall /\ Warp(write_dir, caching, overwrite, failAt)
FirstTransformToTemplate(write_dir, transforms, voxel, caching, failAt) ==
    last = NoCall /\ TransformToTemplate(write_dir, transforms, voxel, caching, failAt)
FirstPerSliceQwarp(apply_to_file, write_dir, caching, failAt) ==
    last = NoCall /\ PerSliceQwarp(apply_to_file, write_dir, caching, failAt)
FirstCoregister(use_rats_tool, prior, caching, failAt) ==
    last = NoCall /\ Coregister(use_rats_tool, prior, caching, failAt)
FirstRegisterToTemplate(voxel, caching, failAt) ==
    last = NoCall /\ RegisterToTemplate(voxel, caching, failAt)

NextAll ==
    \/ \E k \in {"func"} : SetParams(k, Cest)
    \/ \E k \in {"coreg_transform_"} : SetParams(k, CoregTransform)
    \/ \E c \in BOOLEAN, u \in BOOLEAN, f \in DeepFailPoints :
          FirstExtractBrain(c, u, f)
    \/ \E u \in BOOLEAN, w \in {NoneDir, OutDir}, c \in BOOLEAN, f \in DeepFailPoints :
          FirstRigidBodyRegister(u, w, c, f)
    \/ \E w \in {NoneDir, OutDir}, c \in BOOLEAN, o \in BOOLEAN, f \in DeepFailPoints :
          FirstWarp(w, c, o, f)
    \/ \E w \in {OutDir, AltDir}, t \in Chains, v \in BOOLEAN, c \in BOOLEAN,
          f \in DeepFailPoints :
          FirstTransformToTemplate(w, t, v, c, f)
    \/ \E a \in {NonePath, Aux}, w \in {NoneDir, OutDir}, c \in BOOLEAN,
          f \in DeepFailPoints :
          FirstPerSliceQwarp(a, w, c, f)
    \/ \E u \in BOOLEAN, p \in BOOLEAN, c \in BOOLEAN, f \in DeepFailPoints :
          FirstCoregister(u, p, c, f)
    \/ \E v \in BOOLEAN, c \in BOOLEAN, f \in DeepFailPoints :
          FirstRegisterToTemplate(v, c, f)

SpecAll == InitAll /\ [][NextAll]_vars

----------------------------------------------------------------------------
(* Inputs that share a base filename: a second volume named like the       *)
(* anatomical one, in another directory                                    *)

Twin == Path(AltDir, "anat", ".nii")

InitNames ==
    /\ \E src \in SourceShapes :
          fs = [p \in {Anat, Cest, Aux, Twin} |->
                  IF p = Anat THEN Volume("anat", src)
                  ELSE IF p = Twin THEN Volume("twin", <<"pos", "pos">>)
                  ELSE Volume(p.name[1], <<"pos", "pos">>)]
    /\ dirs = {InDir, OutDir, AltDir, WorkDir}
    /\ cwd = WorkDir
    /\ \E c \in {Cest, Twin} :
          session = [cest |-> c, anat |-> Anat, output_dir |-> OutDir,
                     attrs |-> EmptyFn]
    /\ env = [rats |-> TRUE, kwStrict |-> FALSE]
    /\ last = NoCall
    /\ ncalls = 0

\* one call of _per_slice_qwarp on the anatomical volume, a reference and an
\* auxiliary volume of any name
PerSliceQwarpOn(reference_file, apply_to_file, caching, overwrite, failAt) ==
    /\ last = NoCall
    /\ \E m \in {_per_slice_qwarp(Start(failAt), Anat, reference_file, apply_to_file,
                                  OutDir, caching, overwrite)} :
          Commit(m, "_per_slice_qwarp",
                 [to_qwarp |-> Anat, reference |-> reference_file,
                  apply_to |-> apply_to_file, write_dir |-> OutDir,
                  caching |-> caching, overwrite |-> overwrite, failAt |-> failAt])

NextNames ==
    \/ \E k \in {"func"} : SetParams(k, session.cest)
    \/ \E r \in {Cest, Twin}, a \in {NonePath, Aux, Twin}, c \in BOOLEAN,
          f \in DeepFailPoints :
          PerSliceQwarpOn(r, a, c, TRUE, f)
    \/ \E u \in BOOLEAN, p \in BOOLEAN, c \in BOOLEAN, f \in DeepFailPoints :
          FirstCoregister(u, p, c, f)

SpecNames == InitNames /\ [][NextNames]_vars

\* the two stages that re-apply obliquity, with overwrite set and not set
NextOblique ==
    \/ \E w \in {NoneDir, OutDir}, c \in BOOLEAN, o \in BOOLEAN, f \in FailPoints :
          FirstWarp(w, c, o, f)
    \/ \E a \in {NonePath, Aux}, c \in BOOLEAN, o \in BOOLEAN, f \in DeepFailPoints :
          PerSliceQwarpOn(Cest, a, c, o, f)

SpecOblique == InitNames /\ [][NextOblique]_vars

\* sequences of _rigid_body_register calls on the same paths, each of which
\* may fail at any of its tool invocations
NextRigid ==
    \E c \in BOOLEAN, f \in DeepFailPoints : RigidBodyRegister(FALSE, OutDir, c, f)

SpecRigid == InitAll /\ [][NextRigid]_vars

----------------------------------------------------------------------------
(* Properties of the session, checked under Spec *)

Called(op) == last.op = op
AllToolsOk == \A i \in ToolEvents(last.m.trace) : last.m.trace[i].ok
InputsPresent == {last.pre.obj.cest, last.pre.obj.anat} \subseteq DOMAIN last.pre.fs
NotCoregistered == "coreg_transform_" \notin DOMAIN last.pre.obj.attrs

\* C1 as stated: register_to_template on a session without coreg_transform_
\* always fails with the invalid-state error (ValueError), whatever the state
\* of the input files, before anats_to_template or _transform_to_template runs.
C1_AlwaysInvalidState ==
    (Called("register_to_template") /\ NotCoregistered)
        => /\ last.m.exc = "ValueError"
           /\ ToolEvents(last.m.trace) = {}

\* C1 amended: register_to_template on a session without coreg_transform_
\* always fails before anats_to_template or _transform_to_template runs and
\* without touching a file or an attribute; the error is the invalid-state
\* error (ValueError) when both input files exist and the missing-input
\* error (IOError) when the cest or the anat file does not.
C1_FailsBeforeDelegating ==
    (Called("register_to_template") /\ NotCoregistered)
        => /\ last.m.exc = (IF InputsPresent THEN "ValueError" ELSE "IOError")
           /\ ToolEvents(last.m.trace) = {}
           /\ Invoked(last.m.trace, "chdir") = {}
           /\ last.m.fs = last.pre.fs
           /\ last.m.obj = last.pre.obj

C1_Witness ==
    /\ Called("register_to_template")
    /\ NotCoregistered
    /\ InputsPresent
    /\ last.m.exc = "ValueError"
    /\ ncalls = 2

\* C2: on a session whose cest and anat files exist and with every tool call
\* succeeding, coregister completes and sets coreg_anat_ and coreg_transform_.
C2_CoregisterCompletes ==
    (Called("coregister") /\ InputsPresent /\ AllToolsOk)
        => /\ last.m.exc = "none"
           /\ {"coreg_anat_", "coreg_transform_"} \subseteq DOMAIN last.m.obj.attrs

----------------------------------------------------------------------------
(* Properties of the per-slice warp, checked under SpecSlice *)

PerSliceDir == JoinDir(last.args.write_dir, "per_slice")
SourceSlices == last.pre.fs[last.args.to_qwarp]
ReferenceSlices == last.pre.fs[last.args.reference]
Processed == Min(Len(SourceSlices), Len(ReferenceSlices))
ResampledSource(i) == Resampled(SlicedFile(last.args.to_qwarp, PerSliceDir, i - 1))
ResampledReference(i) == Resampled(SlicedFile(last.args.reference, PerSliceDir, i - 1))
AllZero(i) == SourceSlices[i].cls = "zero" \/ ReferenceSlices[i].cls = "zero"
QwarpCalls(i) ==
    {j \in Invoked(last.m.trace, "qwarp") : last.m.trace[j].a = ResampledSource(i)}
Merged(tr) == {j \in Invoked(tr, "merge") : tr[j].ok}

\* C4: for every processed slice i whose resampled source or reference slice
\* is entirely zero, qwarp is not invoked for i, the per-slice result is the
\* resampled source slice itself and entry i of the transform list is null;
\* the list has one entry per processed slice, in index order.
C4_DegenerateSlices ==
    Called("_per_slice_qwarp")
        => /\ Len(last.m.lists.warp_files) = Len(last.m.lists.warped_slices)
           /\ Len(last.m.lists.warp_files) <= Processed
           /\ Merged(last.m.trace) # {} => Len(last.m.lists.warp_files) = Processed
           /\ \A i \in 1..Len(last.m.lists.warp_files) :
                 /\ AllZero(i) =>
                       /\ QwarpCalls(i) = {}
                       /\ last.m.lists.warped_slices[i] = ResampledSource(i)
                       /\ last.m.lists.warp_files[i] = NonePath
                 /\ last.m.lists.warp_files[i] # NonePath =>
                       /\ last.m.lists.warp_files[i]
                              = SourceWarp(Qwarped(ResampledSource(i)))
                       /\ \E j \in QwarpCalls(i) :
                             last.m.trace[j].b = ResampledReference(i)

C4_Witness ==
    /\ Called("_per_slice_qwarp")
    /\ last.m.exc = "none"
    /\ Len(last.m.lists.warp_files) = 2
    /\ SourceSlices[1].cls = "pos" /\ ReferenceSlices[1].cls = "zero"
    /\ last.m.lists.warp_files[1] = NonePath
    /\ last.m.lists.warp_files[2] # NonePath

\* C5: the merged warped volume is the concatenation of exactly N per-slice
\* results, slice i of the output being the result for slice i of the source,
\* also when the reference volume has another number of slices.
C5_AllSlicesMerged ==
    (Called("_per_slice_qwarp") /\ last.m.exc = "none")
        => LET merged == last.m.fs[last.m.ret[1]]
           IN /\ Len(merged) = Len(SourceSlices)
              /\ \A i \in 1..Len(merged) :
                    merged[i].vol = SourceSlices[i].vol /\ merged[i].idx = i - 1

Intermediates ==
    Range(SlicedFiles(last.args.to_qwarp, PerSliceDir, Len(SourceSlices)))
    \cup Range(SlicedFiles(last.args.reference, PerSliceDir, Len(ReferenceSlices)))
    \cup {ResampledSource(i) : i \in 1..Len(SourceSlices)}
    \cup {ResampledReference(i) : i \in 1..Len(ReferenceSlices)}
    \cup Range(last.m.lists.warped_slices)
    \cup Range(ResampledAll(last.m.lists.warped_slices))

\* C6: with caching disabled, a write directory given and every tool call
\* succeeding, _per_slice_qwarp completes its cleanup for every input: every
\* intermediate is deleted exactly once and the merged volume and the files
\* of the transform list remain.
C6_CleanupCompletes ==
    (Called("_per_slice_qwarp") /\ ~last.args.caching
        /\ last.args.write_dir # NoneDir /\ last.args.failAt = 0)
        => /\ last.m.exc = "none"
           /\ \A p \in Intermediates :
                 /\ p \notin DOMAIN last.m.fs
                 /\ Cardinality(Removals(last.m.trace, p)) = 1
           /\ last.m.ret[1] \in DOMAIN last.m.fs
           /\ \A i \in 1..Len(last.m.lists.warp_files) :
                 last.m.lists.warp_files[i] # NonePath
                     => last.m.lists.warp_files[i] \in DOMAIN last.m.fs

----------------------------------------------------------------------------
(* Properties of the stage functions, checked under SpecStages *)

RigidDone == Called("_rigid_body_register") /\ last.m.exc = "none"
RigidWriteDir == WriteDirOr(last.args.write_dir, last.args.moving)
RegistrationStep(tr) == {j \in Invoked(tr, "allineate2") : tr[j].ok}
ApplicationStep(tr) == {j \in Invoked(tr, "allineate") : tr[j].ok}

\* C7 as stated: the second element returned by _rigid_body_register is the
\* inverted matrix file that was applied to the moving head, and it exists
\* when the function returns with caching disabled.
C7_ReturnsInverse ==
    (RigidDone /\ ~last.args.caching)
        => /\ \E j \in ApplicationStep(last.m.trace) :
                 last.m.ret[2] = last.m.trace[j].ins[1]
           /\ last.m.ret[2] \in DOMAIN last.m.fs

\* C7 amended: _rigid_body_register returns the moving head transformed onto
\* the reference grid and, as second element, the matrix written by the
\* reference-brain-to-moving-brain registration step, which is not the
\* inverted matrix that was applied; both files exist when it returns.
C7_ReturnsRegistrationMatrix ==
    RigidDone
        => /\ \E j \in ApplicationStep(last.m.trace) :
                 /\ last.m.ret[1] = last.m.trace[j].out
                 /\ last.m.trace[j].a = last.args.moving
                 /\ last.m.trace[j].b = last.args.reference
                 /\ last.m.ret[2] # last.m.trace[j].ins[1]
           /\ \E j \in RegistrationStep(last.m.trace) :
                 /\ last.m.ret[2] = last.m.trace[j].out
                 /\ last.m.trace[j].a = masked_file(last.args.reference)
                 /\ last.m.trace[j].b = masked_file(last.args.moving)
           /\ {last.m.ret[1], last.m.ret[2]} \subseteq DOMAIN last.m.fs
           /\ \A i \in 1..Len(last.m.fs[last.m.ret[1]]) :
                 last.m.fs[last.m.ret[1]][i].vol = last.pre.fs[last.args.moving][i].vol

C7_Witness == RigidDone /\ ~last.args.caching /\ ncalls = 1

RigidIntermediates ==
    {masked_file(last.args.moving), masked_file(last.args.reference),
     ShrFile(last.args.reference),
     CatmatvecOutFile(last.args.reference, RigidWriteDir)}

\* C8: with caching disabled a successful _rigid_body_register has deleted
\* the two brain volumes, the registered reference-brain volume and the
\* intermediate matrix; with caching enabled it deletes nothing.
C8_IntermediatesDeleted ==
    RigidDone
        => IF last.args.caching
           THEN Invoked(last.m.trace, "remove") = {}
           ELSE RigidIntermediates \cap DOMAIN last.m.fs = {}

\* C9: _transform_to_template with an empty chain fails with the
\* transform-chain error and invokes neither the warp-application tool nor
\* the resampling tool.
C9_EmptyChainRejected ==
    (Called("_transform_to_template") /\ last.args.transforms = <<>>)
        => /\ last.m.exc = "TransformChainError"
           /\ Invoked(last.m.trace, "warp_apply") = {}
           /\ Invoked(last.m.trace, "resample") = {}

\* C10: extract_brain with the morphological strategy and an absent RATS tool
\* fails with ValueError before any tool is invoked and before any file is
\* created or deleted; with the histogram strategy the tool is not probed and
\* its absence never makes the call fail.
C10_ProbeFirst ==
    Called("extract_brain")
        => /\ (last.args.use_rats_tool /\ ~env.rats)
                  => /\ last.m.exc = "ValueError"
                     /\ last.m.trace = <<>>
                     /\ last.m.fs = last.pre.fs
                     /\ last.m.dirs = last.pre.dirs
           /\ ~last.args.use_rats_tool
                  => /\ last.m.exc # "ValueError"
                     /\ Invoked(last.m.trace, "probe") = {}
                     /\ last.args.failAt = 0 => last.m.exc = "none"

C10_Witness ==
    /\ Called("extract_brain")
    /\ last.args.use_rats_tool
    /\ ~env.rats
    /\ last.m.exc = "ValueError"

----------------------------------------------------------------------------
(* Further properties of the stage functions, checked under SpecStages *)

IsTool(e) == e.kind \in ToolKinds
ToolSeq(tr) == SelectSeq(tr, IsTool)
KindsOf(evs) == [i \in 1..Len(evs) |-> evs[i].kind]
MaskWritten(tr) == {j \in Invoked(tr, "compute_mask") : tr[j].ok}

\* C11: after extract_brain returns, the brain-extracted volume it returns
\* exists, and the standalone mask file written by the mask computation has
\* been deleted if and only if caching is disabled.
C11_MaskDeletedUnlessCaching ==
    (Called("extract_brain") /\ last.m.exc = "none")
        => /\ last.m.ret = <<masked_file(last.args.head_file)>>
           /\ last.m.ret[1] \in DOMAIN last.m.fs
           /\ MaskWritten(last.m.trace) # {}
           /\ \A j \in MaskWritten(last.m.trace) :
                 /\ last.m.trace[j].out # last.m.ret[1]
                 /\ (last.m.trace[j].out \notin DOMAIN last.m.fs) <=> ~last.args.caching
                 /\ Cardinality(Removals(last.m.trace, last.m.trace[j].out))
                        = (IF last.args.caching THEN 0 ELSE 1)

C11_Witness ==
    /\ Called("extract_brain")
    /\ last.m.exc = "none"
    /\ ~last.args.caching
    /\ \E j \in MaskWritten(last.m.trace) :
          last.m.trace[j].out \notin DOMAIN last.m.fs

WarpMat == MatFile(last.args.to_warp, WriteDirOr(last.args.write_dir, last.args.to_warp))

\* C17: _warp writes the log of the warp call to the matrix path at most
\* once: a file that exists at that path when _warp is called is left
\* untouched, and when none exists a successful call creates it with the log
\* of this call.
C17_LogWrittenOnce ==
    Called("_warp")
        => /\ WarpMat \in DOMAIN last.pre.fs
                 => /\ WarpMat \in DOMAIN last.m.fs
                    /\ last.m.fs[WarpMat] = last.pre.fs[WarpMat]
                    /\ Invoked(last.m.trace, "savetxt") = {}
           /\ (WarpMat \notin DOMAIN last.pre.fs /\ last.m.exc = "none")
                 => /\ WarpMat \in DOMAIN last.m.fs
                    /\ last.m.fs[WarpMat] = Mat(last.m.call, <<"warplog">>)
                    /\ Cardinality(Invoked(last.m.trace, "savetxt")) = 1
           /\ last.m.exc = "none" => last.m.ret[2] = WarpMat

C17_Witness ==
    /\ Called("_warp")
    /\ last.m.exc = "none"
    /\ last.m.call = 2
    /\ WarpMat \in DOMAIN last.pre.fs
    /\ last.m.fs[WarpMat] = Mat(1, <<"warplog">>)

RigidSteps ==
    <<"clip_level", "compute_mask", "calc", "clip_level", "compute_mask", "calc",
      "allineate2", "catmatvec", "allineate">>

\* C20: a successful _rigid_body_register extracts the moving brain, then the
\* reference brain, registers the reference brain onto the moving brain,
\* inverts the resulting matrix and applies the inverted matrix to the moving
\* head on the reference grid; the matrix applied is the inverse of the
\* matrix computed by the registration step of the same call.
C20_StepsAndInverse ==
    RigidDone
        => LET ts == ToolSeq(last.m.trace)
           IN /\ KindsOf(ts) = RigidSteps
              /\ ts[1].a = last.args.moving
              /\ ts[4].a = last.args.reference
              /\ ts[7].a = masked_file(last.args.reference)
              /\ ts[7].b = masked_file(last.args.moving)
              /\ ts[8].a = ts[7].out
              /\ ts[9].a = last.args.moving
              /\ ts[9].b = last.args.reference
              /\ ts[9].ins = <<ts[8].out>>

----------------------------------------------------------------------------
(* Further properties of the session, checked under Spec *)

Coregistered == "coreg_transform_" \in DOMAIN last.pre.obj.attrs
AttrsOf(obj, keys) == [k \in keys \cap DOMAIN obj.attrs |-> obj.attrs[k]]
TemplateRuns(tr) == {j \in Invoked(tr, "anats_to_template") : tr[j].ok}
Normalizations(tr) == {j \in Invoked(tr, "warp_apply") : tr[j].ok}

\* C12: transitions are not retryable: on a session on which coregister has
\* completed, a further coregister call does not execute the stage again, and
\* on a session on which register_to_template has completed, a further
\* register_to_template call is refused and runs nothing.
C12_NotRetryable ==
    /\ (Called("coregister") /\ "coreg_anat_" \in DOMAIN last.pre.obj.attrs)
           => ToolEvents(last.m.trace) = {}
    /\ (Called("register_to_template")
            /\ "registered_cest_" \in DOMAIN last.pre.obj.attrs)
           => /\ last.m.exc # "none"
              /\ ToolEvents(last.m.trace) = {}

\* C13: on a session with coreg_transform_ set, a register_to_template call
\* whose collaborators all succeed completes and sets template_ to the given
\* template, registered_anat_ to the volume anats_to_template registered and
\* registered_cest_ to the volume that _transform_to_template wrote from the
\* CEST volume with the chain coreg_transform_, pre-transform, transform in
\* that order; coreg_anat_ and coreg_transform_ are unchanged.
C13_RegisterToTemplate ==
    (Called("register_to_template") /\ Coregistered)
        => /\ (InputsPresent /\ AllToolsOk /\ last.pre.obj.output_dir \in last.pre.dirs)
                 => last.m.exc = "none"
           /\ last.m.exc = "none"
                 => /\ last.m.obj.attrs["template_"] = last.args.template
                    /\ \E j \in TemplateRuns(last.m.trace) :
                          /\ last.m.trace[j].a = last.pre.obj.anat
                          /\ last.m.trace[j].b = last.args.template
                          /\ last.m.obj.attrs["registered_anat_"] = last.m.trace[j].out
                    /\ \E j \in Normalizations(last.m.trace) :
                          /\ last.m.trace[j].a = last.pre.obj.cest
                          /\ last.m.trace[j].ins
                                = <<last.pre.obj.attrs["coreg_transform_"],
                                    PreTransformOf(last.pre), TransformOf(last.pre)>>
                          /\ last.m.obj.attrs["registered_cest_"] = last.m.trace[j].out
                          /\ \A i \in TemplateRuns(last.m.trace) : i < j
                    /\ Cardinality(TemplateRuns(last.m.trace)) = 1
                    /\ Cardinality(Normalizations(last.m.trace)) = 1
                    /\ AttrsOf(last.m.obj, {"coreg_anat_", "coreg_transform_"})
                          = AttrsOf(last.pre.obj, {"coreg_anat_", "coreg_transform_"})

C13_Witness ==
    /\ Called("register_to_template")
    /\ Coregistered
    /\ last.m.exc = "none"
    /\ last.args.voxel
    /\ {"template_", "registered_anat_", "registered_cest_"}
           \subseteq DOMAIN last.m.obj.attrs

----------------------------------------------------------------------------
(* Properties of every stage, checked under SpecAll *)

AnyCall == last.op # "none"
Written(tr) == {j \in ToolEvents(tr) : tr[j].ok /\ tr[j].out # NonePath}

\* C14: with caching enabled no stage deletes a file: a call makes no
\* os.remove, every file that was on disk before the call is still there
\* when it ends, and so is every file a tool of the call wrote.
C14_CachingKeepsFiles ==
    (AnyCall /\ last.args.caching)
        => /\ Invoked(last.m.trace, "remove") = {}
           /\ DOMAIN last.pre.fs \subseteq DOMAIN last.m.fs
           /\ \A j \in Written(last.m.trace) :
                 last.m.trace[j].out \in DOMAIN last.m.fs

C14_Witness ==
    /\ Called("_per_slice_qwarp")
    /\ last.args.caching
    /\ last.args.apply_to # NonePath
    /\ last.m.exc = "none"
    /\ SourceSlices[1].cls = "zero"
    /\ Cardinality(Written(last.m.trace)) > 6

Failed(tr) == {j \in ToolEvents(tr) : ~tr[j].ok}

\* C15: when a tool invocation of a call fails, the call invokes no tool
\* after it (so the failed tool is not invoked again either), the failure
\* reaches the caller of the stage, and a session method does not set the
\* attributes it sets on completion (coreg_anat_, coreg_transform_,
\* registered_cest_); a failure inside extract_brain aborts
\* _rigid_body_register and a failure inside _warp aborts coregister.
C15_FailureAborts ==
    AnyCall
        => \A j \in Failed(last.m.trace) :
              /\ \A i \in ToolEvents(last.m.trace) : i <= j
              /\ j = Len(last.m.trace)
              /\ last.m.exc = "ToolExecutionError"
              /\ AttrsOf(last.m.obj, {"coreg_anat_", "coreg_transform_", "registered_cest_"})
                    = AttrsOf(last.pre.obj, {"coreg_anat_", "coreg_transform_",
                                             "registered_cest_"})

C15_Witness ==
    /\ Called("coregister")
    /\ \E j \in Failed(last.m.trace) : last.m.trace[j].kind = "warp"
    /\ last.m.exc = "ToolExecutionError"
    /\ "coreg_anat_" \notin DOMAIN last.m.obj.attrs

Under(d, p) == Len(p.dir) >= Len(d) /\ SubSeq(p.dir, 1, Len(d)) = d
SliceLevel == {"slicer", "resample", "qwarp", "warp_apply"}

\* C16: every file a stage called with a write directory asks a tool to
\* write lies under that directory, the slice-level files of
\* _per_slice_qwarp under its per_slice subdirectory; nothing is written
\* into the directory of an input file that is another directory.
C16_WritesUnderWriteDir ==
    (AnyCall /\ last.op \in {"_rigid_body_register", "_per_slice_qwarp",
                             "_transform_to_template"}
        /\ last.args.write_dir # NoneDir)
        => \A j \in Written(last.m.trace) :
              /\ Under(last.args.write_dir, last.m.trace[j].out)
              /\ (Called("_per_slice_qwarp") /\ last.m.trace[j].kind \in SliceLevel)
                    => Under(PerSliceDir, last.m.trace[j].out)

----------------------------------------------------------------------------
(* Further properties of the per-slice warp, checked under SpecSlice *)

\* C18: the warp tool is invoked for slice i, and a transform recorded for
\* i, exactly when neither the resampled source slice nor the resampled
\* reference slice is entirely zero; a slice with a non-zero voxel is never
\* treated as degenerate.
C18_WarpedIffNotAllZero ==
    Called("_per_slice_qwarp")
        => \A i \in 1..Len(last.m.lists.warp_files) :
              /\ (last.m.lists.warp_files[i] # NonePath) <=> ~AllZero(i)
              /\ (QwarpCalls(i) # {}) <=> ~AllZero(i)

AuxSlices == last.pre.fs[last.args.apply_to]
AuxSlicing(tr) == {j \in Invoked(tr, "slicer") : tr[j].a = last.args.apply_to}

\* C19: with an auxiliary volume given (on the grid of the source), slice i
\* of the merged auxiliary volume is slice i of the auxiliary volume, with
\* the transform recorded for i applied when it is not null and unchanged
\* when it is null, one slice per slice of the auxiliary volume in index
\* order; without an auxiliary volume the third result is None and no
\* auxiliary slicing or warp application is made.
C19_AuxiliaryVolume ==
    (Called("_per_slice_qwarp") /\ last.m.exc = "none")
        => IF last.args.apply_to = NonePath
           THEN /\ last.m.ret[2] = NonePath
                /\ Invoked(last.m.trace, "warp_apply") = {}
                /\ Cardinality(Invoked(last.m.trace, "slicer"))
                      = Len(SourceSlices) + Len(ReferenceSlices)
           ELSE Len(AuxSlices) = Len(SourceSlices)
                => LET merged == last.m.fs[last.m.ret[2]]
                   IN /\ Len(merged) = Len(AuxSlices)
                      /\ \A i \in 1..Len(merged) :
                            /\ merged[i].vol = AuxSlices[i].vol
                            /\ merged[i].idx = i - 1
                            /\ merged[i].cls = AuxSlices[i].cls
                            /\ IF last.m.lists.warp_files[i] = NonePath
                               THEN merged[i].hist = <<>>
                               ELSE "nwarp" \in Range(merged[i].hist)

----------------------------------------------------------------------------
(* The steps of coregister, checked under Spec *)

CopiedCest == FnamePresuffix(last.pre.obj.cest, Sfx(<<>>), OutputDirOf(last.pre), TRUE)
CopiedAnat == FnamePresuffix(last.pre.obj.anat, Sfx(<<>>), OutputDirOf(last.pre), TRUE)
UnbiasedCest == AutoOut(last.pre.cwd, CopiedCest, "_unifized")
UnbiasedAnat == AutoOut(last.pre.cwd, CopiedAnat, "_unifized")
BiasCorrected(tr) == {j \in Invoked(tr, "unifize") : tr[j].ok}
WarpCalls(tr) == Invoked(tr, "warp")
ReachesRigidPass ==
    /\ Called("coregister")
    /\ last.args.failAt = 0
    /\ Cardinality(BiasCorrected(last.m.trace)) = 2

\* C21: in a coregister call that got past both bias corrections with no
\* tool failing, the rigid aligner runs if and only if
\* prior_rigid_body_registration is true, after the bias corrections and
\* before the nonlinear warp, with the bias-corrected anatomical as moving
\* head and the bias-corrected CEST as reference head, writing under the
\* session's output_dir, and its aligned volume is the source of the warp;
\* when it does not run the source of the warp is the bias-corrected
\* anatomical.
C21_RigidPassIffPrior ==
    ReachesRigidPass
        => /\ Cardinality(WarpCalls(last.m.trace)) = 1
           /\ IF last.args.prior
              THEN \E j \in ApplicationStep(last.m.trace) :
                      /\ \A i \in BiasCorrected(last.m.trace) : i < j
                      /\ \A i \in WarpCalls(last.m.trace) :
                            /\ j < i
                            /\ last.m.trace[i].a = last.m.trace[j].out
                      /\ last.m.trace[j].a = UnbiasedAnat
                      /\ last.m.trace[j].b = UnbiasedCest
                      /\ last.m.trace[j].out.dir = OutputDirOf(last.pre)
              ELSE /\ Invoked(last.m.trace, "allineate") = {}
                   /\ Invoked(last.m.trace, "allineate2") = {}
                   /\ Invoked(last.m.trace, "compute_mask") = {}
                   /\ \A i \in WarpCalls(last.m.trace) :
                         /\ last.m.trace[i].a = UnbiasedAnat
                         /\ last.m.trace[i].b = UnbiasedCest
                         /\ \A k \in BiasCorrected(last.m.trace) : k < i

ResultAttrs == {"template_", "registered_anat_", "registered_cest_"}
CoregAttrs == {"coreg_anat_", "coreg_transform_"}

\* C22: a register_to_template call that fails (invalid state, missing
\* input, failure of anats_to_template or of _transform_to_template) leaves
\* template_, registered_anat_ and registered_cest_ exactly as they were
\* before the call, and a coregister call that fails leaves coreg_anat_ and
\* coreg_transform_ as they were.
C22_FailedStageSetsNothing ==
    /\ (Called("register_to_template") /\ last.m.exc # "none")
           => AttrsOf(last.m.obj, ResultAttrs) = AttrsOf(last.pre.obj, ResultAttrs)
    /\ (Called("coregister") /\ last.m.exc # "none")
           => AttrsOf(last.m.obj, CoregAttrs) = AttrsOf(last.pre.obj, CoregAttrs)

----------------------------------------------------------------------------
(* Further properties of every stage, checked under SpecAll *)

CleaningStages == {"extract_brain", "_rigid_body_register", "_per_slice_qwarp", "coregister"}
OwnCollected ==
    Range(last.m.lists.rigid) \cup Range(last.m.lists.slice)
    \cup Range(last.m.lists.coreg)
RemovedFiles(tr) == {tr[i].a : i \in Invoked(tr, "remove")}
MasksOf(tr) == {tr[j].out : j \in MaskWritten(tr)}

\* C23: with caching disabled, a call of extract_brain,
\* _rigid_body_register, _per_slice_qwarp or coregister in which a tool
\* invocation fails has deleted none of the intermediates it collected for
\* cleanup: extract_brain has deleted nothing, the other stages nothing but
\* the mask of a brain extraction, and every other file a tool of the call
\* wrote is still on disk.
C23_NoCleanupAfterFailure ==
    (AnyCall /\ last.op \in CleaningStages /\ ~last.args.caching
        /\ Failed(last.m.trace) # {})
        => /\ RemovedFiles(last.m.trace) \cap OwnCollected = {}
           /\ RemovedFiles(last.m.trace) \subseteq MasksOf(last.m.trace)
           /\ Called("extract_brain") => RemovedFiles(last.m.trace) = {}
           /\ \A j \in Written(last.m.trace) :
                 last.m.trace[j].out \notin MasksOf(last.m.trace)
                     => last.m.trace[j].out \in DOMAIN last.m.fs

C23_Witness ==
    /\ Called("_rigid_body_register")
    /\ ~last.args.caching
    /\ \E j \in Failed(last.m.trace) : last.m.trace[j].kind = "allineate"
    /\ Len(last.m.lists.rigid) = 2
    /\ Range(last.m.lists.rigid) \subseteq DOMAIN last.m.fs

----------------------------------------------------------------------------
(* Properties of the derived file names, checked under SpecNames *)

InputsOf(e) == ({e.a, e.b} \cup Range(e.ins)) \ {NonePath}

\* C24: within one call of _per_slice_qwarp or coregister, on inputs of any
\* name (inputs with the same base filename in different directories
\* included), no two tool invocations are given the same output path, and no
\* file written by a tool of the call is overwritten by another tool of the
\* call before a later tool of the call reads it.
C24_NoCollision ==
    AnyCall
        => /\ \A j, k \in Written(last.m.trace) :
                 last.m.trace[j].out = last.m.trace[k].out => j = k
           /\ \A j, l, k \in Written(last.m.trace) :
                 (j < l /\ l < k /\ last.m.trace[j].out \in InputsOf(last.m.trace[k]))
                     => last.m.trace[l].out # last.m.trace[j].out

----------------------------------------------------------------------------
(* Properties of the obliquity fixes, checked under SpecOblique *)

Fixes(tr) == Invoked(tr, "fix_obliquity")
FixOf(tr, p, ref) == {i \in Fixes(tr) : tr[i].a = p /\ tr[i].b = ref /\ tr[i].ok}
Slicings(tr) == {j \in Invoked(tr, "slicer") : tr[j].ok}
Merges(tr, p) == {j \in Invoked(tr, "merge") : tr[j].out = p /\ tr[j].ok}
ReadsAfter(tr, i, p) == {k \in ToolEvents(tr) : k > i /\ p \in InputsOf(tr[k])}
ObliquityOf(f, p) == OblOf(Read(f, p))

\* C25: obliquity is re-applied from the trusted reference before the volume
\* is consumed or returned.  In _warp the warped volume is fixed from the
\* reference volume right after the warp call and the volume returned
\* carries the obliquity of the reference.  In _per_slice_qwarp every
\* extracted slice is fixed from its parent volume right after extraction,
\* every slice resampled back is fixed from the original reference slice of
\* the same index before the merge, each merged volume is fixed before the
\* function returns (the warped one from the full reference volume), every
\* file a later tool reads after a fix is the fixed file, and the volumes
\* returned carry the obliquity of their reference.
C25_ObliquityReapplied ==
    /\ (Called("_warp") /\ last.m.exc = "none")
           => /\ \A j \in WarpCalls(last.m.trace) :
                    /\ j + 1 \in FixOf(last.m.trace, last.m.trace[j].out,
                                       last.args.reference)
                    /\ last.m.ret[1] = last.m.trace[j + 1].out
              /\ ObliquityOf(last.m.fs, last.m.ret[1])
                    = ObliquityOf(last.pre.fs, last.args.reference)
    /\ (Called("_per_slice_qwarp") /\ last.m.exc = "none")
           => /\ \A j \in Slicings(last.m.trace) :
                    j + 1 \in FixOf(last.m.trace, last.m.trace[j].out,
                                    last.m.trace[j].a)
              /\ \A i \in 1..Len(last.m.lists.warped_slices) :
                    \E x \in FixOf(last.m.trace,
                                   Resampled(last.m.lists.warped_slices[i]),
                                   SlicedFile(last.args.reference, PerSliceDir, i - 1)) :
                       \A j \in Merges(last.m.trace, last.m.ret[1]) : x < j
              /\ \E x \in FixOf(last.m.trace, last.m.ret[1], last.args.reference) :
                    \A j \in Merges(last.m.trace, last.m.ret[1]) : j < x
              /\ last.args.apply_to # NonePath
                    => \E x \in FixOf(last.m.trace, last.m.ret[2], last.args.apply_to) :
                          \A j \in Merges(last.m.trace, last.m.ret[2]) : j < x
              /\ \A i \in Fixes(last.m.trace) :
                    ReadsAfter(last.m.trace, i, last.m.trace[i].a) # {}
                        => last.m.trace[i].out = last.m.trace[i].a
              /\ ObliquityOf(last.m.fs, last.m.ret[1])
                    = ObliquityOf(last.pre.fs, last.args.reference)
              /\ last.args.apply_to # NonePath
                    => ObliquityOf(last.m.fs, last.m.ret[2])
                          = ObliquityOf(last.pre.fs, last.args.apply_to)

----------------------------------------------------------------------------
(* Properties of _transform_to_template, checked under SpecStages *)

TemplateResamplings(tr) == Invoked(tr, "resample")
WarpApplications(tr) == Invoked(tr, "warp_apply")

\* C26: a _transform_to_template call that completes has invoked the
\* warp-application tool exactly once, with the volume to register as input
\* and the transforms of the chain in the order given; the master grid of
\* that call is the template itself when no voxel size is given and the file
\* the resampling of the template wrote otherwise; the resampling tool is
\* invoked exactly once when a voxel size is given and never when none is,
\* whether or not the call completes.
C26_SingleWarpApplication ==
    Called("_transform_to_template")
        => /\ Cardinality(TemplateResamplings(last.m.trace))
                 <= (IF last.args.voxel THEN 1 ELSE 0)
           /\ Cardinality(WarpApplications(last.m.trace)) <= 1
           /\ last.m.exc = "none"
                 => /\ Cardinality(WarpApplications(last.m.trace)) = 1
                    /\ Cardinality(TemplateResamplings(last.m.trace))
                          = (IF last.args.voxel THEN 1 ELSE 0)
                    /\ \A j \in WarpApplications(last.m.trace) :
                          /\ last.m.trace[j].ok
                          /\ last.m.trace[j].a = last.args.to_register
                          /\ last.m.trace[j].ins = last.args.transforms
                          /\ last.m.ret = <<last.m.trace[j].out>>
                          /\ IF last.args.voxel
                             THEN \A i \in TemplateResamplings(last.m.trace) :
                                     /\ i < j
                                     /\ last.m.trace[i].a = last.args.template
                                     /\ last.m.trace[i].out # last.args.template
                                     /\ last.m.trace[j].b = last.m.trace[i].out
                             ELSE last.m.trace[j].b = last.args.template

C26_Witness ==
    /\ Called("_transform_to_template")
    /\ last.m.exc = "none"
    /\ last.args.voxel
    /\ Len(last.args.transforms) = 2
    /\ Cardinality(WarpApplications(last.m.trace)) = 1

\* C27: _transform_to_template leaves the working directory of the process
\* as it found it on every exit path: whether it returns or a tool call
\* (resample or warp application) fails, the working directory after the
\* call is the working directory before the call.
C27_WorkingDirectoryRestored ==
    Called("_transform_to_template") => last.m.cwd = last.pre.cwd

----------------------------------------------------------------------------
(* Properties of repeated rigid registrations, checked under SpecRigid *)

Inversions(tr) == {i \in Invoked(tr, "catmatvec") : tr[i].ok}
AppliedInverse == CatmatvecOutFile(last.args.reference, RigidWriteDir)
ComputedBy(c) == IF Len(c) = 0 THEN "" ELSE c[1].hist[Len(c[1].hist)]

\* C28: over any sequence of _rigid_body_register calls on the same paths
\* (with or without caching, a previous call that failed after writing the
\* inverse matrix included), every call that applies an inverse matrix to
\* the moving head has computed that inverse itself, after its own
\* registration step and from the matrix that step wrote, and the volume it
\* returns was produced with the matrix of this call; an inverse-matrix file
\* left by an earlier call is never applied.
C28_InverseAlwaysFresh ==
    Called("_rigid_body_register")
        => /\ \A j \in Invoked(last.m.trace, "allineate") :
                 \E i \in Inversions(last.m.trace) :
                    /\ i < j
                    /\ last.m.trace[i].out = last.m.trace[j].ins[1]
                    /\ \E r \in RegistrationStep(last.m.trace) :
                          r < i /\ last.m.trace[i].a = last.m.trace[r].out
           /\ last.m.exc = "none"
                 => ComputedBy(last.m.fs[last.m.ret[1]]) = ToString(last.m.call)

====
